---- MODULE Spec2Model ----
(***************************************************************************)
(* The lyric-video editor of src/App.tsx (first App component, with the    *)
(* continuous caption position) and src/components/Timeline.tsx: the       *)
(* snapshot history (past / present / future), the caption operations and  *)
(* the timeline's drag engine.                                             *)
(*                                                                         *)
(* Times are integers counting tenths of a second, so that the code's      *)
(* 0.2 s minimum and 3 s default length are exact: 0.2 s = 2, 3 s = 30.     *)
(* Caption indices are 1-based here (0-based in the code).  A value that   *)
(* may be null in the code is <<>> when null and <<v>> when it is v.       *)
(* Strings whose characters matter (caption text) are sequences of         *)
(* one-character strings.                                                  *)
(***************************************************************************)
EXTENDS Integers, Sequences, FiniteSets, TLC

VARIABLES
    history,      \* App.tsx:41  { past, present, future }
    file,         \* App.tsx:26  selected audio file, NoFile when null
    currentTime,  \* App.tsx:30
    duration,     \* App.tsx:32  0 until the audio's metadata is loaded
    activeDrag,   \* Timeline.tsx:24  the drag session, <<>> when null
    gestures,     \* observer: the pointer presses on caption blocks so far
    last,         \* observer: the handler that ran last, with its inputs
    gesture,      \* observer: the document at pointer press of the gesture just made
    isLoading,    \* App.tsx:27
    error,        \* App.tsx:28  <<>> when null
    pending,      \* the captioning call in flight (handleGenerateClick's await), <<>> when none;
                  \* observer: stale once resetState ran after its start
    isExporting,  \* App.tsx:37
    exportStatus, \* App.tsx:38  { step, progress }
    isModalOpen,  \* App.tsx:36
    exportPc,     \* where handleExportMp4's asynchronous run stands
    downloads,    \* the files the export handed to the browser (a.click())
    audio,        \* the <audio> element: currentTime, paused
    frameLines,   \* the lines drawFrame drew last
    isDragging,   \* CaptionPreview.tsx:35
    recognition,  \* CaptionEditor.tsx:237  recognitionRef: the row being dictated, <<>> when null
    heap,         \* the caption objects that snapshots refer to where they share them
    blobs         \* object URLs of background images: how many created, which released

editorVars == <<history, file, currentTime, duration, activeDrag, gestures, last, gesture>>
loadVars == <<isLoading, error, pending>>
exportVars == <<isExporting, exportStatus, isModalOpen, exportPc, downloads, audio, frameLines>>
uiVars == <<isDragging, recognition>>
memVars == <<heap, blobs>>

vars == <<editorVars, loadVars, exportVars, uiVars, memVars>>

-----------------------------------------------------------------------------
(* Bounds of the model *)

MaxPast == 3        \* commits are explored while past holds fewer entries
MaxGestures == 1    \* pointer presses on caption blocks explored in one run

(* Program constants, in tenths of a second *)

MinDuration == 2          \* const minDuration = 0.2
DefaultCaptionLen == 30   \* endTime: currentTime + 3

(* The environment: files, the audio's length, the track's rectangle and  *)
(* the pointer positions (pixels).                                         *)

NoFile == "null"
Files == {"song.mp3"}
AudioDurations == {40}
TimelineRect == [left |-> 0, width |-> 4]
ClickXs == {4}
PressXs == {2}
MoveXs == {0, 2, 4}
ThemeChoices == {"neon"}

None == <<>>
Some(v) == <<v>>

NewLineText == <<"N", "e", "w", " ", "L", "i", "n", "e">>

Caption(s, e, t, em) == [startTime |-> s, endTime |-> e, text |-> t, emoji |-> em]

-----------------------------------------------------------------------------
(* The document *)

initialThemeConfigs ==
    [neon |-> [fontSize |-> 60], gradient |-> [fontSize |-> 64]]

initialEditorState ==
    [captions |-> None,
     theme |-> "minecraft",
     themeConfigs |-> initialThemeConfigs,
     backgroundImage |-> "null",
     captionPosition |-> [x |-> 50, y |-> 80],
     aspectRatio |-> "16:9"]

Max(a, b) == IF a >= b THEN a ELSE b
Min(a, b) == IF a <= b THEN a ELSE b

(* { ...a, ...b } *)
Merge(a, b) ==
    [f \in (DOMAIN a) \cup (DOMAIN b) |-> IF f \in DOMAIN b THEN b[f] ELSE a[f]]


(* Faulty variants of setState, told apart by C1_Commit and C3_Coalesced:  *)
(* a commit that keeps future, and a coalesced update that pushes onto past *)
SetState_KeepFuture(h, newState, overwrite) ==
    LET newPresent == Merge(h.present, newState)
    IN IF overwrite
       THEN [past |-> h.past, present |-> newPresent, future |-> h.future]
       ELSE [past |-> Append(h.past, h.present), present |-> newPresent, future |-> h.future]

SetState_AlwaysPush(h, newState, overwrite) ==
    [past |-> Append(h.past, h.present),
     present |-> Merge(h.present, newState),
     future |-> IF overwrite THEN h.future ELSE <<>>]

(* setState(newState, overwrite), as a function of the history *)
SetState(h, newState, overwrite) ==
    LET newPresent == Merge(h.present, newState) IN
    IF overwrite
    THEN [past |-> h.past, present |-> newPresent, future |-> h.future]
    ELSE [past |-> Append(h.past, h.present), present |-> newPresent, future |-> <<>>]

(* Faulty variants of undo, told apart by C2_UndoRedoInverse and           *)
(* C5_NoOpExactlyWhenEmpty: the old present pushed to the back of future,  *)
(* and a guard that keeps the oldest snapshot                              *)
Undo_FutureAtBack(h) ==
    IF Len(h.past) = 0 THEN h
    ELSE [past |-> SubSeq(h.past, 1, Len(h.past) - 1),
          present |-> h.past[Len(h.past)],
          future |-> Append(h.future, h.present)]

Undo_KeepsOldest(h) ==
    IF Len(h.past) <= 1 THEN h
    ELSE [past |-> SubSeq(h.past, 1, Len(h.past) - 1),
          present |-> h.past[Len(h.past)],
          future |-> <<h.present>> \o h.future]

(* The updater of handleUndo *)
Undo(h) ==
    IF Len(h.past) = 0 THEN h
    ELSE [past |-> SubSeq(h.past, 1, Len(h.past) - 1),
          present |-> h.past[Len(h.past)],
          future |-> <<h.present>> \o h.future]

(* The updater of handleRedo *)
Redo(h) ==
    IF Len(h.future) = 0 THEN h
    ELSE [past |-> Append(h.past, h.present),
          present |-> h.future[1],
          future |-> Tail(h.future)]

canUndo == Len(history.past) > 0
canRedo == Len(history.future) > 0

captions == history.present.captions

(* captions || [] *)
CaptionsOrEmpty(c) == IF c = None THEN <<>> ELSE c[1]

-----------------------------------------------------------------------------
(* Caption operations *)

(* Array.prototype.sort((a, b) => a.startTime - b.startTime): a stable sort *)
InsertByStart(sorted, c) ==
    LET k == Cardinality({i \in DOMAIN sorted : sorted[i].startTime <= c.startTime})
    IN SubSeq(sorted, 1, k) \o <<c>> \o SubSeq(sorted, k + 1, Len(sorted))

RECURSIVE SortByStartTime(_)
SortByStartTime(s) ==
    IF s = <<>> THEN <<>>
    ELSE InsertByStart(SortByStartTime(SubSeq(s, 1, Len(s) - 1)), s[Len(s)])

(* A faulty variant of handleAddCaption's list that skips the sort, told   *)
(* apart by C10_AddLine                                                    *)
AddCaption_NoSort(c, time) ==
    Append(CaptionsOrEmpty(c), Caption(time, time + DefaultCaptionLen, NewLineText, None))

(* handleAddCaption's new list *)
AddCaption(c, time) ==
    LET newCaption == Caption(time, time + DefaultCaptionLen, NewLineText, None)
    IN SortByStartTime(Append(CaptionsOrEmpty(c), newCaption))

(* handleUpdateCaptionTime's new list *)
UpdateCaptionTime_All(list, index, newStartTime, newEndTime) ==
    [i \in DOMAIN list |->
        [list[i] EXCEPT !.startTime = newStartTime, !.endTime = newEndTime]]

UpdateCaptionTime(list, index, newStartTime, newEndTime) ==
    [i \in DOMAIN list |->
        IF i = index
        THEN [list[i] EXCEPT !.startTime = newStartTime, !.endTime = newEndTime]
        ELSE list[i]]

-----------------------------------------------------------------------------
(* The timeline's drag engine (Timeline.tsx, handleMouseMove) *)

(* deltaTime = (deltaX / timelineRect.width) * duration; the pointer        *)
(* positions of the model make the quotient exact.                          *)
DeltaTime(clientX, initialMouseX, rect, dur) ==
    ((clientX - initialMouseX) * dur) \div rect.width

MoveInterval_ClampEnd(initialStartTime, initialEndTime, deltaTime, dur) ==
    LET newStartTime == Max(0, initialStartTime + deltaTime)
    IN [newStartTime |-> newStartTime,
        newEndTime |-> Min(dur, newStartTime + (initialEndTime - initialStartTime))]

(* type 'drag' *)
MoveInterval(initialStartTime, initialEndTime, deltaTime, dur) ==
    LET dragStartTime == initialStartTime + deltaTime
        captionDuration == initialEndTime - initialStartTime
        newStartTime == Max(0, dragStartTime)
        newEndTime == newStartTime + captionDuration
    IN IF newEndTime > dur
       THEN [newStartTime |-> dur - captionDuration, newEndTime |-> dur]
       ELSE [newStartTime |-> newStartTime, newEndTime |-> newEndTime]

(* A faulty variant of resize-start without the cap at                     *)
(* initialEndTime - minDuration, told apart by C8_ResizeStart              *)
ResizeStart_NoCap(initialStartTime, initialEndTime, deltaTime, dur) ==
    [newStartTime |-> Max(0, initialStartTime + deltaTime), newEndTime |-> initialEndTime]

(* type 'resize-start' *)
ResizeStartInterval(initialStartTime, initialEndTime, deltaTime, dur) ==
    LET moved == initialStartTime + deltaTime
        capped == IF moved > initialEndTime - MinDuration
                  THEN initialEndTime - MinDuration ELSE moved
    IN [newStartTime |-> Max(0, capped), newEndTime |-> initialEndTime]

(* type 'resize-end' *)
ResizeEndInterval(initialStartTime, initialEndTime, deltaTime, dur) ==
    LET moved == initialEndTime + deltaTime
        floored == IF moved < initialStartTime + MinDuration
                   THEN initialStartTime + MinDuration ELSE moved
    IN [newStartTime |-> initialStartTime, newEndTime |-> Min(dur, floored)]

DragTypes == {"drag", "resize-start", "resize-end"}

(* A faulty variant that moves on from the caption's current times instead *)
(* of the times captured at the press, told apart by C23_MoveOnlyFromPress *)
DragInterval_FromCurrent(drag, deltaTime, dur) ==
    LET now == captions[1][drag.index]
    IN IF drag.type = "drag"
       THEN MoveInterval(now.startTime, now.endTime, deltaTime, dur)
       ELSE IF drag.type = "resize-start"
       THEN ResizeStartInterval(now.startTime, now.endTime, deltaTime, dur)
       ELSE ResizeEndInterval(now.startTime, now.endTime, deltaTime, dur)

DragInterval(drag, deltaTime, dur) ==
    IF drag.type = "drag"
    THEN MoveInterval(drag.initialStartTime, drag.initialEndTime, deltaTime, dur)
    ELSE IF drag.type = "resize-start"
    THEN ResizeStartInterval(drag.initialStartTime, drag.initialEndTime, deltaTime, dur)
    ELSE ResizeEndInterval(drag.initialStartTime, drag.initialEndTime, deltaTime, dur)

-----------------------------------------------------------------------------
(* The state machine *)

NoPartial == [none |-> TRUE]

(* What the observer keeps of a handler's run: its name, the kind of setState *)
(* it made (commit, overwrite or none) with the partial state passed, the  *)
(* pointer position it was given, and whether the history changed.         *)
Ran(op, set, partial, x, changed) ==
    [op |-> op, set |-> set, partial |-> partial, clientX |-> x, changed |-> changed]

(* The initial values of the state outside the document *)
RestInit ==
    /\ isLoading = FALSE
    /\ error = None
    /\ pending = None
    /\ isExporting = FALSE
    /\ exportStatus = [step |-> "idle", progress |-> 0]
    /\ isModalOpen = FALSE
    /\ exportPc = "idle"
    /\ downloads = 0
    /\ audio = [currentTime |-> 0, paused |-> TRUE]
    /\ frameLines = <<>>
    /\ isDragging = FALSE
    /\ recognition = None
    /\ heap = <<>>
    /\ blobs = [created |-> 0, revoked |-> {}]

Init ==
    /\ history = [past |-> <<>>, present |-> initialEditorState, future |-> <<>>]
    /\ file = NoFile
    /\ currentTime = 0
    /\ duration = 0
    /\ activeDrag = None
    /\ gestures = 0
    /\ last = Ran("init", "none", NoPartial, 0, FALSE)
    /\ gesture = None
    /\ RestInit

(* A commit is explored while past is below the model's bound *)
CanCommit == Len(history.past) < MaxPast

(* The editing layout is shown once a file is selected (App.tsx:412) *)
Editing == file # NoFile

(* The buttons and the track are operated with the pointer: their click    *)
(* handlers run while no drag session holds the pointer pressed.           *)
PointerFree == activeDrag = None /\ ~isDragging

handleFileSelect(selectedFile) ==
    /\ file = NoFile
    /\ CanCommit
    /\ file' = selectedFile
    /\ history' = SetState(history, [captions |-> None], FALSE)
    /\ currentTime' = 0
    /\ last' = Ran("handleFileSelect", "commit", [captions |-> None], 0, TRUE)
    /\ gesture' = None
    /\ UNCHANGED <<duration, activeDrag, gestures>>
    /\ error' = None
    /\ UNCHANGED <<isLoading, pending, exportVars, uiVars, memVars>>

(* <audio onLoadedMetadata> *)
onLoadedMetadata(d) ==
    /\ Editing
    /\ duration = 0
    /\ duration' = d
    /\ last' = Ran("onLoadedMetadata", "none", NoPartial, 0, FALSE)
    /\ gesture' = None
    /\ UNCHANGED <<history, file, currentTime, activeDrag, gestures>>
    /\ UNCHANGED <<loadVars, exportVars, uiVars, memVars>>

(* handleTimelineClick on the empty track, then handleSeek *)
handleTimelineClick(clientX) ==
    /\ Editing
    /\ PointerFree
    /\ duration # 0
    /\ clientX - TimelineRect.left \in 0..TimelineRect.width
    /\ currentTime' = ((clientX - TimelineRect.left) * duration) \div TimelineRect.width
    /\ audio' = [audio EXCEPT !.currentTime = currentTime']
    /\ last' = Ran("handleTimelineClick", "none", NoPartial, clientX, FALSE)
    /\ gesture' = None
    /\ UNCHANGED <<history, file, duration, activeDrag, gestures>>
    /\ UNCHANGED <<loadVars, isExporting, exportStatus, isModalOpen, exportPc, downloads,
                   frameLines, uiVars, memVars>>

handleAddCaption ==
    /\ Editing
    /\ PointerFree
    /\ CanCommit
    /\ LET updatedCaptions == AddCaption(captions, currentTime) IN
         /\ history' = SetState(history, [captions |-> Some(updatedCaptions)], FALSE)
         /\ last' = Ran("handleAddCaption", "commit", [captions |-> Some(updatedCaptions)], 0, TRUE)
    /\ gesture' = None
    /\ UNCHANGED <<file, currentTime, duration, activeDrag, gestures>>
    /\ UNCHANGED <<loadVars, exportVars, uiVars, memVars>>

(* onThemeChange={(newTheme) => setState({ theme: newTheme })} *)
onThemeChange(newTheme) ==
    /\ Editing
    /\ PointerFree
    /\ CanCommit
    /\ history' = SetState(history, [theme |-> newTheme], FALSE)
    /\ last' = Ran("onThemeChange", "commit", [theme |-> newTheme], 0, TRUE)
    /\ gesture' = None
    /\ UNCHANGED <<file, currentTime, duration, activeDrag, gestures>>
    /\ UNCHANGED <<loadVars, exportVars, uiVars, memVars>>

handleUndo ==
    /\ Editing
    /\ PointerFree
    /\ history' = Undo(history)
    /\ last' = Ran("handleUndo", "none", NoPartial, 0, history' # history)
    /\ gesture' = None
    /\ UNCHANGED <<file, currentTime, duration, activeDrag, gestures>>
    /\ UNCHANGED <<loadVars, exportVars, uiVars, memVars>>

handleRedo ==
    /\ Editing
    /\ PointerFree
    /\ history' = Redo(history)
    /\ last' = Ran("handleRedo", "none", NoPartial, 0, history' # history)
    /\ gesture' = None
    /\ UNCHANGED <<file, currentTime, duration, activeDrag, gestures>>
    /\ UNCHANGED <<loadVars, exportVars, uiVars, memVars>>

(* Timeline's handleMouseDown on a caption block or one of its handles *)
handleMouseDown(index, type, clientX) ==
    /\ Editing
    /\ index \in DOMAIN CaptionsOrEmpty(captions)
    /\ activeDrag = None
    /\ gestures < MaxGestures
    /\ gestures' = gestures + 1
    /\ captions # None
    /\ duration > 0
    /\ activeDrag' = Some([index |-> index,
                           type |-> type,
                           initialMouseX |-> clientX,
                           initialStartTime |-> captions[1][index].startTime,
                           initialEndTime |-> captions[1][index].endTime])
    /\ last' = Ran("handleMouseDown", "none", NoPartial, clientX, FALSE)
    /\ gesture' = Some([pre |-> history.present, moved |-> FALSE])
    /\ UNCHANGED <<history, file, currentTime, duration>>
    /\ UNCHANGED <<loadVars, exportVars, uiVars, memVars>>

(* Timeline's handleMouseMove, calling App's handleUpdateCaptionTime *)
handleMouseMove(clientX) ==
    /\ Editing
    /\ activeDrag # None
    /\ IF captions = None \/ duration = 0
       THEN /\ last' = Ran("handleMouseMove", "none", NoPartial, clientX, FALSE)
            /\ UNCHANGED <<history, gesture>>
       ELSE LET drag == activeDrag[1]
                deltaTime == DeltaTime(clientX, drag.initialMouseX, TimelineRect, duration)
                new == DragInterval(drag, deltaTime, duration)
                newCaptions == UpdateCaptionTime(captions[1], drag.index,
                                                 new.newStartTime, new.newEndTime)
            IN /\ history' = SetState(history, [captions |-> Some(newCaptions)], TRUE)
               /\ last' = Ran("handleMouseMove", "overwrite",
                              [captions |-> Some(newCaptions)], clientX, history' # history)
               /\ gesture' = IF gesture = None THEN None
                             ELSE Some([gesture[1] EXCEPT !.moved = TRUE])
    /\ UNCHANGED <<file, currentTime, duration, activeDrag, gestures>>
    /\ UNCHANGED <<loadVars, exportVars, uiVars, memVars>>

(* Timeline's handleMouseUp *)
handleMouseUp ==
    /\ activeDrag # None
    /\ activeDrag' = None
    /\ last' = Ran("handleMouseUp", "none", NoPartial, 0, FALSE)
    /\ UNCHANGED <<history, file, currentTime, duration, gestures, gesture>>
    /\ UNCHANGED <<loadVars, exportVars, uiVars, memVars>>

Next ==
    \/ \E f \in Files : handleFileSelect(f)
    \/ \E d \in AudioDurations : onLoadedMetadata(d)
    \/ \E x \in ClickXs : handleTimelineClick(x)
    \/ handleAddCaption
    \/ \E t \in ThemeChoices : onThemeChange(t)
    \/ handleUndo
    \/ handleRedo
    \/ \E i \in 1..MaxPast, ty \in DragTypes, x \in PressXs : handleMouseDown(i, ty, x)
    \/ \E x \in MoveXs : handleMouseMove(x)
    \/ handleMouseUp

Spec == Init /\ [][Next]_vars

-----------------------------------------------------------------------------
(* The Timeline component on its own: the captions and the duration are    *)
(* props drawn from caption lists the captioning service can return (every *)
(* line with 0 <= startTime < endTime), and only the pointer acts.         *)

TrackDurations == {20, 40}

InputCaptionLists ==
    { << Caption(0, 30, NewLineText, None) >>,
      << Caption(10, 30, <<"l", "a">>, None) >>,
      << Caption(0, 1, <<"o", "h">>, None) >>,
      << Caption(39, 40, <<"e", "n", "d">>, None) >>,
      << Caption(0, 50, <<"l", "o", "n", "g">>, None) >>,
      << Caption(0, 10, <<"a">>, Some(<<"*">>)), Caption(20, 40, <<"b">>, None) >> }

InitDrag ==
    /\ \E list \in InputCaptionLists :
          history = [past |-> <<initialEditorState>>,
                     present |-> [initialEditorState EXCEPT !.captions = Some(list)],
                     future |-> <<>>]
    /\ file \in Files
    /\ currentTime = 0
    /\ duration \in TrackDurations
    /\ activeDrag = None
    /\ gestures = 0
    /\ last = Ran("init", "none", NoPartial, 0, FALSE)
    /\ gesture = None
    /\ RestInit

NextDrag ==
    \/ \E i \in 1..MaxPast, ty \in DragTypes, x \in PressXs : handleMouseDown(i, ty, x)
    \/ \E x \in MoveXs : handleMouseMove(x)
    \/ handleMouseUp

SpecDrag == InitDrag /\ [][NextDrag]_vars

-----------------------------------------------------------------------------
(* The active caption, as the preview, the timeline and the export's frame *)
(* loop each select it.                                                    *)

(* A faulty variant of find that returns the last match, told apart by     *)
(* C13_ActiveCaption                                                       *)
RECURSIVE FindLast(_, _)
FindLast(list, time) ==
    IF list = <<>> THEN None
    ELSE LET c == list[Len(list)]
         IN IF time >= c.startTime /\ time <= c.endTime THEN Some(c)
            ELSE FindLast(SubSeq(list, 1, Len(list) - 1), time)

(* captions.find(cap => time >= cap.startTime && time <= cap.endTime) *)
RECURSIVE Find(_, _)
Find(list, time) ==
    IF list = <<>> THEN None
    ELSE IF time >= list[1].startTime /\ time <= list[1].endTime THEN Some(list[1])
    ELSE Find(Tail(list), time)

(* App.tsx: currentCaption, given to CaptionPreview *)
currentCaption(c, time) == IF c = None THEN None ELSE Find(c[1], time)

(* Timeline.tsx: activeCaption, whose start and end the markers show *)
activeCaption(c, time) == IF c = None THEN None ELSE Find(c[1], time)

(* handleExportMp4, drawFrame: cap; captions is non-null there *)
drawFrameCaption(list, time) == Find(list, time)

-----------------------------------------------------------------------------
(* Editing the caption list: the handlers App passes to CaptionEditor,     *)
(* started from the history as it is after a file was selected (captions   *)
(* null) or after the captioning service returned a list.                  *)

MaxEdits == 2       \* commits explored on top of the starting history

Whitespace == {" "}

(* String.prototype.trim *)
RECURSIVE TrimStart(_)
TrimStart(s) ==
    IF s # <<>> /\ s[1] \in Whitespace THEN TrimStart(Tail(s)) ELSE s

RECURSIVE TrimEnd(_)
TrimEnd(s) ==
    IF s # <<>> /\ s[Len(s)] \in Whitespace THEN TrimEnd(SubSeq(s, 1, Len(s) - 1)) ELSE s

Trim(s) == TrimEnd(TrimStart(s))

(* caption.emoji as a condition: undefined and '' are falsy *)
HasEmoji(c) == c.emoji # None /\ c.emoji[1] # <<>>

(* A faulty variant of the accepted caption that joins without trimming,   *)
(* told apart by C12_Emoji                                                 *)
AcceptedCaption_NoTrim(c) ==
    [c EXCEPT !.text = c.emoji[1] \o <<" ">> \o c.text, !.emoji = None]

(* { ...caption, text: `${caption.emoji} ${caption.text}`.trim(), emoji: undefined } *)
AcceptedCaption(c) ==
    [c EXCEPT !.text = Trim(c.emoji[1] \o <<" ">> \o c.text), !.emoji = None]

(* { ...newCaptions[index], emoji: undefined } *)
RejectedCaption(c) == [c EXCEPT !.emoji = None]

ReplaceAt(list, index, c) == [i \in DOMAIN list |-> IF i = index THEN c ELSE list[i]]

(* A faulty variant of the filter that drops the element after the index   *)
(* as well, told apart by C11_DeleteLine                                   *)
DeleteCaption_Two(list, index) ==
    SubSeq(list, 1, index - 1) \o SubSeq(list, index + 2, Len(list))

(* captions.filter((_, i) => i !== index) *)
RECURSIVE DeleteCaption(_, _)
DeleteCaption(list, index) ==
    IF list = <<>> THEN <<>>
    ELSE LET rest == DeleteCaption(SubSeq(list, 1, Len(list) - 1), index)
         IN IF Len(list) # index THEN Append(rest, list[Len(list)]) ELSE rest

RanAt(op, set, partial, index, changed) ==
    [op |-> op, set |-> set, partial |-> partial, clientX |-> 0,
     changed |-> changed, index |-> index]

EditCaptionLists ==
    { << Caption(0, 10, <<"a">>, Some(<<"*">>)),
         Caption(10, 20, <<" ", "b", " ">>, Some(<<"+">>)),
         Caption(15, 30, <<"c">>, None) >>,
      << Caption(0, 20, <<>>, Some(<<"*">>)),
         Caption(0, 20, <<"a", " ", "b">>, Some(<<>>)) >>,
      << Caption(5, 10, <<"a">>, None),
         Caption(5, 10, <<"a">>, None),
         Caption(20, 25, <<"b">>, Some(<<" ">>)) >> }

(* past and present once handleFileSelect committed { captions: null } *)
SelectedHistory ==
    [past |-> <<initialEditorState>>, present |-> initialEditorState, future |-> <<>>]

(* ... and once handleGenerateClick committed null and then the list *)
GeneratedHistory(list) ==
    SetState(SetState(SelectedHistory, [captions |-> None], FALSE),
             [captions |-> Some(list)], FALSE)

InitEdit ==
    /\ \/ history = SelectedHistory
       \/ \E list \in EditCaptionLists : history = GeneratedHistory(list)
    /\ file \in Files
    /\ currentTime = 0
    /\ duration \in AudioDurations
    /\ activeDrag = None
    /\ gestures = 0
    /\ last = Ran("init", "none", NoPartial, 0, FALSE)
    /\ gesture = None
    /\ RestInit

EditCanCommit == Len(history.past) < Len(GeneratedHistory(<<>>).past) + MaxEdits

(* The indices the list's rows offer *)
RowIndices == 1..3

handleDeleteCaption(index) ==
    /\ Editing
    /\ PointerFree
    /\ IF captions = None
       THEN /\ UNCHANGED history
            /\ last' = RanAt("handleDeleteCaption", "none", NoPartial, index, FALSE)
       ELSE /\ index \in DOMAIN captions[1]
            /\ EditCanCommit
            /\ LET newCaptions == DeleteCaption(captions[1], index)
               IN /\ history' = SetState(history, [captions |-> Some(newCaptions)], FALSE)
                  /\ last' = RanAt("handleDeleteCaption", "commit",
                                   [captions |-> Some(newCaptions)], index, TRUE)
    /\ gesture' = None
    /\ UNCHANGED <<file, currentTime, duration, activeDrag, gestures>>
    /\ UNCHANGED <<loadVars, exportVars, uiVars, memVars>>

handleAcceptEmoji(index) ==
    /\ Editing
    /\ PointerFree
    /\ IF captions = None
       THEN /\ UNCHANGED history
            /\ last' = RanAt("handleAcceptEmoji", "none", NoPartial, index, FALSE)
       ELSE /\ index \in DOMAIN captions[1]
            /\ IF ~HasEmoji(captions[1][index])
               THEN /\ UNCHANGED history
                    /\ last' = RanAt("handleAcceptEmoji", "none", NoPartial, index, FALSE)
               ELSE /\ EditCanCommit
                    /\ LET newCaptions == ReplaceAt(captions[1], index,
                                                    AcceptedCaption(captions[1][index]))
                       IN /\ history' = SetState(history, [captions |-> Some(newCaptions)], FALSE)
                          /\ last' = RanAt("handleAcceptEmoji", "commit",
                                           [captions |-> Some(newCaptions)], index, TRUE)
    /\ gesture' = None
    /\ UNCHANGED <<file, currentTime, duration, activeDrag, gestures>>
    /\ UNCHANGED <<loadVars, exportVars, uiVars, memVars>>

handleRejectEmoji(index) ==
    /\ Editing
    /\ PointerFree
    /\ IF captions = None
       THEN /\ UNCHANGED history
            /\ last' = RanAt("handleRejectEmoji", "none", NoPartial, index, FALSE)
       ELSE /\ index \in DOMAIN captions[1]
            /\ EditCanCommit
            /\ LET newCaptions == ReplaceAt(captions[1], index,
                                            RejectedCaption(captions[1][index]))
               IN /\ history' = SetState(history, [captions |-> Some(newCaptions)], FALSE)
                  /\ last' = RanAt("handleRejectEmoji", "commit",
                                   [captions |-> Some(newCaptions)], index, TRUE)
    /\ gesture' = None
    /\ UNCHANGED <<file, currentTime, duration, activeDrag, gestures>>
    /\ UNCHANGED <<loadVars, exportVars, uiVars, memVars>>

(* The row's seek button: onSeek(cap.startTime) -> handleSeek *)
handleSeek(index) ==
    /\ Editing
    /\ PointerFree
    /\ captions # None
    /\ index \in DOMAIN captions[1]
    /\ currentTime' = captions[1][index].startTime
    /\ audio' = [audio EXCEPT !.currentTime = currentTime']
    /\ last' = RanAt("handleSeek", "none", NoPartial, index, FALSE)
    /\ gesture' = None
    /\ UNCHANGED <<history, file, duration, activeDrag, gestures>>
    /\ UNCHANGED <<loadVars, isExporting, exportStatus, isModalOpen, exportPc, downloads,
                   frameLines, uiVars, memVars>>

NextEdit ==
    \/ \E i \in RowIndices : handleSeek(i)
    \/ \E i \in RowIndices : handleDeleteCaption(i)
    \/ \E i \in RowIndices : handleAcceptEmoji(i)
    \/ \E i \in RowIndices : handleRejectEmoji(i)
    \/ handleUndo
    \/ handleRedo

SpecEdit == InitEdit /\ [][NextEdit]_vars

-----------------------------------------------------------------------------
(* The style of the active theme *)

(* themeConfigs[theme]; spreading an undefined config gives {} *)
activeThemeConfig(state) ==
    IF state.theme \in DOMAIN state.themeConfigs
    THEN state.themeConfigs[state.theme]
    ELSE <<>>

(* A faulty variant that stores the new config under every theme, told     *)
(* apart by C16_ThemeConfig                                                *)
ThemeConfigChange_All(state, newConfig) ==
    [themeConfigs |->
        [t \in (DOMAIN state.themeConfigs) \cup {state.theme} |-> newConfig]]

(* handleThemeConfigChange's partial state:                                *)
(* { themeConfigs: { ...themeConfigs, [theme]: newConfig } }               *)
ThemeConfigChange(state, newConfig) ==
    [themeConfigs |->
        [t \in (DOMAIN state.themeConfigs) \cup {state.theme} |->
            IF t = state.theme THEN newConfig ELSE state.themeConfigs[t]]]

-----------------------------------------------------------------------------
(* The export's text layout (handleExportMp4, drawFrame).  Indices are     *)
(* 0-based as in the code.                                                 *)

CharAt(text, i) == text[i + 1]

(* text.lastIndexOf(' ', from) *)
LastIndexOfSpace(text, from) ==
    LET found == {i \in 0..Min(from, Len(text) - 1) : CharAt(text, i) = " "}
    IN IF found = {} THEN -1 ELSE CHOOSE i \in found : \A j \in found : j <= i

(* text.indexOf(' ', from) *)
IndexOfSpace(text, from) ==
    LET found == {i \in from..(Len(text) - 1) : CharAt(text, i) = " "}
    IN IF found = {} THEN -1 ELSE CHOOSE i \in found : \A j \in found : i <= j

(* text.substring(from, to) *)
Substring(text, from, to) == SubSeq(text, from + 1, to)

(* `${cap.emoji || ''} ${cap.text}`.trim() *)
FrameText(cap) ==
    Trim((IF HasEmoji(cap) THEN cap.emoji[1] ELSE <<>>) \o <<" ">> \o cap.text)

(* style.maxLines; undefined (0 here) when the config has no such field *)
MaxLinesOf(config) == IF "maxLines" \in DOMAIN config THEN config.maxLines ELSE 0

SplitPos_Mid(text) == Len(text) \div 2

(* The position drawFrame splits at, -1 when it finds none *)
SplitPos(text) ==
    LET mid == Len(text) \div 2
        before == LastIndexOfSpace(text, mid)
        after == IndexOfSpace(text, mid)
        splitPos == IF mid - before < after - mid THEN before ELSE after
    IN IF splitPos = -1 THEN (IF before # -1 THEN before ELSE after) ELSE splitPos

(* const lines = [] ... *)
SplitLines(text, maxLines) ==
    IF maxLines = 2 /\ Len(text) > 20 /\ (\E i \in DOMAIN text : text[i] = " ")
    THEN LET splitPos == SplitPos(text)
         IN IF splitPos # -1
            THEN << Trim(Substring(text, 0, splitPos)),
                    Trim(Substring(text, splitPos, Len(text))) >>
            ELSE <<text>>
    ELSE <<text>>

-----------------------------------------------------------------------------
(* The video export (handleExportMp4), started from a generated caption    *)
(* list with a theme chosen and its maxLines set.                          *)

(* A text whose words have the given lengths, joined by single blanks *)
WordOf(n) == [i \in 1..n |-> "a"]

RECURSIVE TextOf(_)
TextOf(lens) ==
    IF lens = <<>> THEN <<>>
    ELSE IF Len(lens) = 1 THEN WordOf(lens[1])
    ELSE WordOf(lens[1]) \o <<" ">> \o TextOf(Tail(lens))

ExportCaptionLists ==
    { << Caption(0, 5, TextOf(<<8, 3, 8>>), None),
         Caption(10, 15, TextOf(<<10, 10>>), None),
         Caption(20, 25, TextOf(<<21>>), None),
         Caption(30, 35, TextOf(<<3, 3>>), None),
         Caption(40, 45, TextOf(<<15, 5, 3>>), Some(<<"*">>)) >>,
      << Caption(0, 5, TextOf(<<2, 19>>), None),
         Caption(10, 15, TextOf(<<19, 2>>), None),
         Caption(20, 25, TextOf(<<6, 2, 3, 2, 6>>), Some(<<"*">>)),
         Caption(30, 35, TextOf(<<7, 1, 1, 1, 7>>), None),
         Caption(40, 45, TextOf(<<4, 9, 9>>), None) >>,
      << Caption(0, 5, <<" ">> \o WordOf(10) \o <<" ", " ">> \o WordOf(10) \o <<" ">>, None),
         Caption(10, 15, WordOf(20), Some(<<"*">>)),
         Caption(20, 25, TextOf(<<9, 10>>), None),
         Caption(30, 35, <<>>, None),
         Caption(40, 45, TextOf(<<1, 1, 1, 1, 1, 1, 1, 1, 1, 1, 1, 1>>), None) >> }

MaxLinesChoices == {1, 2}
BackgroundImages == {"null", "blob:1"}

(* The history once the list was generated, the theme chosen, its maxLines *)
(* set and the background picked                                           *)
ExportHistory(list, maxLines, image) ==
    LET generated == GeneratedHistory(list)
        themed == SetState(generated, [theme |-> "neon"], FALSE)
        styled == SetState(themed,
                           ThemeConfigChange(themed.present,
                               Merge(activeThemeConfig(themed.present), [maxLines |-> maxLines])),
                           FALSE)
    IN IF image = "null" THEN styled
       ELSE SetState(styled, [backgroundImage |-> image], FALSE)

InitExport ==
    /\ \E list \in ExportCaptionLists, n \in MaxLinesChoices, image \in BackgroundImages :
          history = ExportHistory(list, n, image)
    /\ file \in Files
    /\ currentTime = 0
    /\ duration \in AudioDurations
    /\ activeDrag = None
    /\ gestures = 0
    /\ last = Ran("init", "none", NoPartial, 0, FALSE)
    /\ gesture = None
    /\ RestInit

(* What the observer keeps of a step of the export: its name and, when it  *)
(* failed, the cause                                                       *)
RanExport(op, failed) ==
    [op |-> op, set |-> "none", partial |-> NoPartial, clientX |-> 0,
     changed |-> FALSE, failed |-> failed]

ExportFailures == {"no canvas context", "recorder setup error",
                   "background image load error", "audio play rejection"}

(* What the browser answers to the synchronous part of the export *)
SetupOutcomes == {"ok", "no canvas context", "recorder setup error"}

(* The seconds (in tenths) the audio advances between two frames *)
FrameSteps == {10}

MaxDownloads == 2   \* exports are started while fewer files were handed over

(* handleExportMp4 up to its first await.  The button is disabled while    *)
(* isExporting.                                                            *)
handleExportMp4(outcome) ==
    /\ Editing
    /\ PointerFree
    /\ captions # None
    /\ ~isExporting
    /\ exportPc = "idle"
    /\ downloads < MaxDownloads
    /\ exportStatus' = [step |-> "initializing", progress |-> 0]
    /\ isModalOpen' = TRUE
    /\ IF outcome = "ok"
       THEN /\ isExporting' = TRUE
            /\ IF history.present.backgroundImage # "null"
               THEN /\ exportPc' = "awaitImage"
                    /\ audio' = audio
               ELSE /\ exportPc' = "awaitPlay"
                    /\ audio' = [audio EXCEPT !.currentTime = 0]
            /\ last' = RanExport("handleExportMp4", "none")
       ELSE /\ isExporting' = FALSE
            /\ exportPc' = "idle"
            /\ audio' = audio
            /\ last' = RanExport("handleExportMp4", outcome)
    /\ gesture' = None
    /\ UNCHANGED <<history, file, currentTime, duration, activeDrag, gestures>>
    /\ UNCHANGED <<loadVars, downloads, frameLines, uiVars, memVars>>

(* bgImage.onload: recorder.start(); audio.currentTime = 0; audio.play() *)
bgImageLoaded ==
    /\ exportPc = "awaitImage"
    /\ exportPc' = "awaitPlay"
    /\ audio' = [audio EXCEPT !.currentTime = 0]
    /\ last' = RanExport("bgImageLoaded", "none")
    /\ UNCHANGED <<history, file, currentTime, duration, activeDrag, gestures, gesture>>
    /\ UNCHANGED <<loadVars, isExporting, exportStatus, isModalOpen, downloads, frameLines, uiVars, memVars>>

(* bgImage.onerror: the await rejects into the catch *)
bgImageError ==
    /\ exportPc = "awaitImage"
    /\ exportPc' = "idle"
    /\ isExporting' = FALSE
    /\ last' = RanExport("bgImageError", "background image load error")
    /\ UNCHANGED <<history, file, currentTime, duration, activeDrag, gestures, gesture>>
    /\ UNCHANGED <<loadVars, exportStatus, isModalOpen, downloads, audio, frameLines, uiVars, memVars>>

(* audio.play() resolved: requestAnimationFrame(drawFrame) *)
playResolved ==
    /\ exportPc = "awaitPlay"
    /\ exportPc' = "frames"
    /\ audio' = [audio EXCEPT !.paused = FALSE]
    /\ last' = RanExport("playResolved", "none")
    /\ UNCHANGED <<history, file, currentTime, duration, activeDrag, gestures, gesture>>
    /\ UNCHANGED <<loadVars, isExporting, exportStatus, isModalOpen, downloads, frameLines, uiVars, memVars>>

(* audio.play() rejected: the await rejects into the catch *)
playRejected ==
    /\ exportPc = "awaitPlay"
    /\ exportPc' = "idle"
    /\ isExporting' = FALSE
    /\ last' = RanExport("playRejected", "audio play rejection")
    /\ UNCHANGED <<history, file, currentTime, duration, activeDrag, gestures, gesture>>
    /\ UNCHANGED <<loadVars, exportStatus, isModalOpen, downloads, audio, frameLines, uiVars, memVars>>

(* The audio plays on between two frames, up to its end *)
audioAdvance(step) ==
    /\ exportPc = "frames"
    /\ ~audio.paused
    /\ audio.currentTime < duration
    /\ audio' = [audio EXCEPT !.currentTime = Min(duration, audio.currentTime + step),
                              !.paused = (audio.currentTime + step >= duration)]
    /\ last' = RanExport("audioAdvance", "none")
    /\ UNCHANGED <<history, file, currentTime, duration, activeDrag, gestures, gesture>>
    /\ UNCHANGED <<loadVars, isExporting, exportStatus, isModalOpen, exportPc, downloads,
                   frameLines, uiVars, memVars>>

(* One animation frame.  captions and activeThemeConfig are those of the   *)
(* render in which the export started; nothing changes them meanwhile here. *)
drawFrame ==
    /\ exportPc = "frames"
    /\ LET time == audio.currentTime
           cap == drawFrameCaption(captions[1], time)
       IN /\ frameLines' = IF cap = None THEN <<>>
                           ELSE SplitLines(FrameText(cap[1]),
                                           MaxLinesOf(activeThemeConfig(history.present)))
          /\ exportStatus' = [step |-> "rendering", progress |-> (time * 100) \div duration]
          /\ exportPc' = IF time < duration THEN "frames" ELSE "stopping"
    /\ last' = RanExport("drawFrame", "none")
    /\ UNCHANGED <<history, file, currentTime, duration, activeDrag, gestures, gesture>>
    /\ UNCHANGED <<loadVars, isExporting, isModalOpen, downloads, audio, uiVars, memVars>>

(* recorder.onstop *)
recorderOnStop ==
    /\ exportPc = "stopping"
    /\ exportStatus' = [step |-> "done", progress |-> 100]
    /\ downloads' = downloads + 1
    /\ exportPc' = "closing"
    /\ last' = RanExport("recorderOnStop", "none")
    /\ UNCHANGED <<history, file, currentTime, duration, activeDrag, gestures, gesture>>
    /\ UNCHANGED <<loadVars, isExporting, isModalOpen, audio, frameLines, uiVars, memVars>>

(* setTimeout(() => { setIsModalOpen(false); setIsExporting(false); }, 1500) *)
exportCloseTimer ==
    /\ exportPc = "closing"
    /\ isModalOpen' = FALSE
    /\ isExporting' = FALSE
    /\ exportPc' = "idle"
    /\ last' = RanExport("exportCloseTimer", "none")
    /\ UNCHANGED <<history, file, currentTime, duration, activeDrag, gestures, gesture>>
    /\ UNCHANGED <<loadVars, exportStatus, downloads, audio, frameLines, uiVars, memVars>>

NextExport ==
    \/ \E o \in SetupOutcomes : handleExportMp4(o)
    \/ bgImageLoaded
    \/ bgImageError
    \/ playResolved
    \/ playRejected
    \/ \E step \in FrameSteps : audioAdvance(step)
    \/ drawFrame
    \/ recorderOnStop
    \/ exportCloseTimer

SpecExport == InitExport /\ [][NextExport]_vars

-----------------------------------------------------------------------------
(* The second App component's handleUpdateCaptionTime (App.tsx:616-628).   *)
(* It copies the array but not the caption: `[...captions]` holds the      *)
(* objects of present.captions, and those are the objects of every         *)
(* snapshot that was pushed without replacing them.  Here captions is a    *)
(* list of references into heap.                                           *)

SharedCaptions ==
    << Caption(0, 10, <<"a">>, None), Caption(20, 30, <<"b">>, None) >>

(* A snapshot with its captions read through the heap *)
SnapshotValue(state, h) ==
    IF state.captions = None THEN state
    ELSE [state EXCEPT !.captions =
             Some([i \in DOMAIN state.captions[1] |-> h[state.captions[1][i]]])]

InitShared ==
    /\ history = [past |-> <<>>,
                  present |-> [initialEditorState EXCEPT
                                  !.captions = Some([i \in DOMAIN SharedCaptions |-> i])],
                  future |-> <<>>]
    /\ file \in Files
    /\ currentTime = 0
    /\ duration \in AudioDurations
    /\ activeDrag = None
    /\ gestures = 0
    /\ last = Ran("init", "none", NoPartial, 0, FALSE)
    /\ gesture = None
    /\ isLoading = FALSE
    /\ error = None
    /\ pending = None
    /\ isExporting = FALSE
    /\ exportStatus = [step |-> "idle", progress |-> 0]
    /\ isModalOpen = FALSE
    /\ exportPc = "idle"
    /\ downloads = 0
    /\ audio = [currentTime |-> 0, paused |-> TRUE]
    /\ frameLines = <<>>
    /\ isDragging = FALSE
    /\ recognition = None
    /\ heap = SharedCaptions
    /\ blobs = [created |-> 0, revoked |-> {}]

(* Timeline's handleMouseDown, reading the caption object *)
handleMouseDown_shared(index, type, clientX) ==
    /\ Editing
    /\ captions # None
    /\ index \in DOMAIN captions[1]
    /\ activeDrag = None
    /\ gestures < MaxGestures
    /\ gestures' = gestures + 1
    /\ duration > 0
    /\ activeDrag' = Some([index |-> index,
                           type |-> type,
                           initialMouseX |-> clientX,
                           initialStartTime |-> heap[captions[1][index]].startTime,
                           initialEndTime |-> heap[captions[1][index]].endTime])
    /\ last' = Ran("handleMouseDown", "none", NoPartial, clientX, FALSE)
    /\ gesture' = None
    /\ UNCHANGED <<history, file, currentTime, duration>>
    /\ UNCHANGED <<loadVars, exportVars, uiVars, memVars>>

(* caption.startTime = newStartTime; caption.endTime = newEndTime *)
UpdateCaptionTime_InPlace(h, ref, newStartTime, newEndTime) ==
    [h EXCEPT ![ref] = [@ EXCEPT !.startTime = newStartTime, !.endTime = newEndTime]]

(* Timeline's handleMouseMove calling the second handleUpdateCaptionTime:  *)
(* the object is changed in place and the copied array set with overwrite  *)
handleMouseMove_shared(clientX) ==
    /\ Editing
    /\ activeDrag # None
    /\ captions # None
    /\ duration # 0
    /\ LET drag == activeDrag[1]
           deltaTime == DeltaTime(clientX, drag.initialMouseX, TimelineRect, duration)
           new == DragInterval(drag, deltaTime, duration)
       IN /\ heap' = UpdateCaptionTime_InPlace(heap, captions[1][drag.index],
                                               new.newStartTime, new.newEndTime)
          /\ history' = SetState(history, [captions |-> captions], TRUE)
          /\ last' = Ran("handleMouseMove", "overwrite", [captions |-> captions],
                         clientX, heap' # heap)
    /\ gesture' = None
    /\ UNCHANGED <<file, currentTime, duration, activeDrag, gestures>>
    /\ UNCHANGED <<loadVars, exportVars, uiVars, blobs>>

NextShared ==
    \/ \E i \in DOMAIN SharedCaptions, ty \in DragTypes, x \in PressXs :
          handleMouseDown_shared(i, ty, x)
    \/ \E x \in MoveXs : handleMouseMove_shared(x)
    \/ handleMouseUp
    \/ \E t \in ThemeChoices : onThemeChange(t)
    \/ handleUndo
    \/ handleRedo

SpecShared == InitShared /\ [][NextShared]_vars

-----------------------------------------------------------------------------
(* The export while the playback controls of the timeline stay in use.     *)
(* The export records the page's one audio element (audioRef.current),     *)
(* the element the play button and the seek bar act on.                    *)

ExportClickXs == {0, 2, 4}

PlaybackCaptionLists ==
    { << Caption(0, 20, <<"a">>, None), Caption(30, 40, <<"b">>, Some(<<"*">>)) >> }

InitPlayback ==
    /\ \E list \in PlaybackCaptionLists, n \in MaxLinesChoices, image \in BackgroundImages :
          history = ExportHistory(list, n, image)
    /\ file \in Files
    /\ currentTime = 0
    /\ duration \in AudioDurations
    /\ activeDrag = None
    /\ gestures = 0
    /\ last = Ran("init", "none", NoPartial, 0, FALSE)
    /\ gesture = None
    /\ RestInit

(* Timeline's play button: isPlaying ? audio.pause() : audio.play().       *)
(* isPlaying follows the element's play and pause events; play() on an     *)
(* element that has ended starts again from 0.                             *)
onPlayPause ==
    /\ Editing
    /\ PointerFree
    /\ audio' = IF audio.paused
                THEN [currentTime |-> IF audio.currentTime >= duration
                                      THEN 0 ELSE audio.currentTime,
                      paused |-> FALSE]
                ELSE [audio EXCEPT !.paused = TRUE]
    /\ last' = Ran("onPlayPause", "none", NoPartial, 0, FALSE)
    /\ gesture' = None
    /\ UNCHANGED <<history, file, currentTime, duration, activeDrag, gestures>>
    /\ UNCHANGED <<loadVars, isExporting, exportStatus, isModalOpen, exportPc, downloads,
                   frameLines, uiVars, memVars>>

NextPlayback ==
    \/ NextExport
    \/ onPlayPause
    \/ \E x \in ExportClickXs : handleTimelineClick(x)

(* Frames keep coming, a playing audio keeps playing, and the recorder and *)
(* the timer answer.                                                       *)
SpecPlayback ==
    /\ InitPlayback
    /\ [][NextPlayback]_vars
    /\ WF_vars(drawFrame)
    /\ WF_vars(\E step \in FrameSteps : audioAdvance(step))
    /\ WF_vars(recorderOnStop)
    /\ WF_vars(exportCloseTimer)

-----------------------------------------------------------------------------
(* Styling: the theme buttons and style controls (ThemeSelector), the font *)
(* size slider and the position drag of the preview (CaptionPreview), with *)
(* undo and redo, started from a selected file.                            *)

MaxStyleEdits == 3  \* commits explored on top of the starting history

StyleThemes == {"neon", "gradient"}
ConfigEdits == { [maxLines |-> 2], [fontSize |-> 12] }

PreviewRect == [left |-> 0, top |-> 0, width |-> 10, height |-> 10]
PreviewPoints == { <<-2, 12>>, <<5, 8>>, <<12, -1>> }

InitStyle ==
    /\ history = SelectedHistory
    /\ file \in Files
    /\ currentTime = 0
    /\ duration \in AudioDurations
    /\ activeDrag = None
    /\ gestures = 0
    /\ last = Ran("init", "none", NoPartial, 0, FALSE)
    /\ gesture = None
    /\ RestInit

StyleCanCommit == Len(history.past) < Len(SelectedHistory.past) + MaxStyleEdits

(* A theme button of ThemeSelector: onThemeChange(name) *)
handleThemeSelect(newTheme) ==
    /\ Editing
    /\ PointerFree
    /\ StyleCanCommit
    /\ history' = SetState(history, [theme |-> newTheme], FALSE)
    /\ last' = Ran("handleThemeSelect", "commit", [theme |-> newTheme], 0, TRUE)
    /\ gesture' = None
    /\ UNCHANGED <<file, currentTime, duration, activeDrag, gestures>>
    /\ UNCHANGED <<loadVars, exportVars, uiVars, memVars>>

(* A style control: onActiveThemeConfigChange({ ...activeThemeConfig, ...edit }) *)
handleThemeConfigChange(edit) ==
    /\ Editing
    /\ PointerFree
    /\ StyleCanCommit
    /\ LET newConfig == Merge(activeThemeConfig(history.present), edit)
           partial == ThemeConfigChange(history.present, newConfig)
       IN /\ history' = SetState(history, partial, FALSE)
          /\ last' = [op |-> "handleThemeConfigChange", set |-> "commit", partial |-> partial,
                      clientX |-> 0, changed |-> TRUE, newConfig |-> newConfig]
    /\ gesture' = None
    /\ UNCHANGED <<file, currentTime, duration, activeDrag, gestures>>
    /\ UNCHANGED <<loadVars, exportVars, uiVars, memVars>>

(* CaptionPreview: handleMouseDown on the caption box *)
previewMouseDown ==
    /\ Editing
    /\ PointerFree
    /\ isDragging' = TRUE
    /\ last' = Ran("previewMouseDown", "none", NoPartial, 0, FALSE)
    /\ gesture' = None
    /\ UNCHANGED <<history, file, currentTime, duration, activeDrag, gestures>>
    /\ UNCHANGED <<loadVars, exportVars, recognition, memVars>>

(* A faulty variant of the position without the clamp, told apart by       *)
(* C17_PositionInRange                                                     *)
PreviewPosition_NoClamp(clientX, clientY, rect) ==
    [x |-> ((clientX - rect.left) * 100) \div rect.width,
     y |-> ((clientY - rect.top) * 100) \div rect.height]

(* The position CaptionPreview's handleMouseMove passes on *)
PreviewPosition(clientX, clientY, rect) ==
    LET x == ((clientX - rect.left) * 100) \div rect.width
        y == ((clientY - rect.top) * 100) \div rect.height
    IN [x |-> Max(0, Min(100, x)), y |-> Max(0, Min(100, y))]

(* CaptionPreview: handleMouseMove -> onCaptionPositionChange ->           *)
(* setState({ captionPosition: pos })                                      *)
previewMouseMove(clientX, clientY) ==
    /\ Editing
    /\ isDragging
    /\ StyleCanCommit
    /\ LET pos == PreviewPosition(clientX, clientY, PreviewRect)
       IN /\ history' = SetState(history, [captionPosition |-> pos], FALSE)
          /\ last' = [op |-> "previewMouseMove", set |-> "commit",
                      partial |-> [captionPosition |-> pos],
                      clientX |-> clientX, changed |-> TRUE, clientY |-> clientY]
    /\ gesture' = None
    /\ UNCHANGED <<file, currentTime, duration, activeDrag, gestures>>
    /\ UNCHANGED <<loadVars, exportVars, uiVars, memVars>>

(* CaptionPreview: handleMouseUp *)
previewMouseUp ==
    /\ Editing
    /\ isDragging
    /\ isDragging' = FALSE
    /\ last' = Ran("previewMouseUp", "none", NoPartial, 0, FALSE)
    /\ gesture' = None
    /\ UNCHANGED <<history, file, currentTime, duration, activeDrag, gestures>>
    /\ UNCHANGED <<loadVars, exportVars, recognition, memVars>>

NextStyle ==
    \/ \E t \in StyleThemes : handleThemeSelect(t)
    \/ \E edit \in ConfigEdits : handleThemeConfigChange(edit)
    \/ previewMouseDown
    \/ \E point \in PreviewPoints : previewMouseMove(point[1], point[2])
    \/ previewMouseUp
    \/ handleUndo
    \/ handleRedo

SpecStyle == InitStyle /\ [][NextStyle]_vars

-----------------------------------------------------------------------------
(* Voice dictation into a caption row (the second CaptionEditor component, *)
(* handleToggleVoiceInput) next to a drag on the timeline.  The            *)
(* recognition's callbacks are browser events: they arrive whatever the    *)
(* pointer is doing.                                                       *)

Transcripts == { <<"h", "i">> }

DictationCaptionLists ==
    { << Caption(0, 10, <<"a">>, None), Caption(20, 30, <<>>, None) >>,
      << Caption(10, 30, <<"l", "a">>, None) >> }

InitDictation ==
    /\ \E list \in DictationCaptionLists : history = GeneratedHistory(list)
    /\ file \in Files
    /\ currentTime = 0
    /\ duration \in AudioDurations
    /\ activeDrag = None
    /\ gestures = 0
    /\ last = Ran("init", "none", NoPartial, 0, FALSE)
    /\ gesture = None
    /\ RestInit

(* handleUpdateCaptionText's new list *)
UpdateCaptionText(list, index, newText) ==
    [i \in DOMAIN list |-> IF i = index THEN [list[i] EXCEPT !.text = newText] ELSE list[i]]

(* The microphone button of a row, pressed while no dictation runs: a new  *)
(* recognition is started, whose onresult keeps the captions and the       *)
(* onUpdateCaption of this render.                                         *)
handleToggleVoiceInput(index) ==
    /\ Editing
    /\ PointerFree
    /\ captions # None
    /\ index \in DOMAIN captions[1]
    /\ recognition = None
    /\ recognition' = Some([index |-> index, captions |-> captions[1], heard |-> FALSE])
    /\ last' = RanAt("handleToggleVoiceInput", "none", NoPartial, index, FALSE)
    /\ gesture' = None
    /\ UNCHANGED <<history, file, currentTime, duration, activeDrag, gestures>>
    /\ UNCHANGED <<loadVars, exportVars, isDragging, memVars>>

(* recognition.onresult -> onUpdateCaption(index, newText) ->              *)
(* handleUpdateCaptionText -> setState({ captions: newCaptions })          *)
recognitionOnResult(transcript) ==
    /\ recognition # None
    /\ ~recognition[1].heard
    /\ EditCanCommit
    /\ LET index == recognition[1].index
           existingText == recognition[1].captions[index].text
           newText == IF existingText # <<>>
                      THEN existingText \o <<" ">> \o transcript
                      ELSE transcript
           newCaptions == UpdateCaptionText(recognition[1].captions, index, newText)
       IN /\ history' = SetState(history, [captions |-> Some(newCaptions)], FALSE)
          /\ last' = RanAt("recognitionOnResult", "commit",
                           [captions |-> Some(newCaptions)], index, TRUE)
    /\ recognition' = Some([recognition[1] EXCEPT !.heard = TRUE])
    /\ UNCHANGED <<file, currentTime, duration, activeDrag, gestures, gesture>>
    /\ UNCHANGED <<loadVars, exportVars, isDragging, memVars>>

(* recognition.onend *)
recognitionOnEnd ==
    /\ recognition # None
    /\ recognition' = None
    /\ last' = Ran("recognitionOnEnd", "none", NoPartial, 0, FALSE)
    /\ UNCHANGED <<history, file, currentTime, duration, activeDrag, gestures, gesture>>
    /\ UNCHANGED <<loadVars, exportVars, isDragging, memVars>>

NextDictation ==
    \/ \E i \in RowIndices : handleToggleVoiceInput(i)
    \/ \E t \in Transcripts : recognitionOnResult(t)
    \/ recognitionOnEnd
    \/ \E i \in RowIndices, ty \in DragTypes, x \in PressXs : handleMouseDown(i, ty, x)
    \/ \E x \in MoveXs : handleMouseMove(x)
    \/ handleMouseUp

SpecDictation == InitDictation /\ [][NextDictation]_vars

(***************************************************************************)
(* Caption generation: handleGenerateClick awaits the captioning service.  *)
(* The handler runs up to the await in one step; the service's answer is   *)
(* a second step, either the parsed list or a thrown error.                *)
(***************************************************************************)

MaxGenerateCommits == 4

(* The message of handleGenerateClick's catch block *)
AnalysisFailed == "Analysis failed. Try another audio track."

(* Lists generateCaptions can return: the whole parsed response *)
GeneratedLists ==
    { << Caption(0, 10, <<"a">>, Some(<<"*">>)), Caption(10, 20, <<"b">>, None) >>,
      << Caption(5, 15, <<"c">>, None) >>,
      << >> }

InitGenerate ==
    /\ history = SelectedHistory
    /\ file \in Files
    /\ currentTime = 0
    /\ duration \in AudioDurations
    /\ activeDrag = None
    /\ gestures = 0
    /\ last = Ran("init", "none", NoPartial, 0, FALSE)
    /\ gesture = None
    /\ RestInit

(* handleGenerateClick up to `await generateCaptions(file)`.  The button  *)
(* is rendered only while captions is null and is disabled while loading. *)
handleGenerateClick ==
    /\ Editing
    /\ PointerFree
    /\ captions = None
    /\ ~isLoading
    /\ Len(history.past) + 2 <= Len(SelectedHistory.past) + MaxGenerateCommits
    /\ isLoading' = TRUE
    /\ error' = None
    /\ history' = SetState(history, [captions |-> None], FALSE)
    /\ pending' = Some([file |-> file, stale |-> FALSE])
    /\ last' = Ran("handleGenerateClick", "commit", [captions |-> None], 0, TRUE)
    /\ gesture' = None
    /\ UNCHANGED <<file, currentTime, duration, activeDrag, gestures>>
    /\ UNCHANGED <<exportVars, uiVars, memVars>>

(* What the catch and finally blocks leave behind *)
GenerateFailed_CommitsEmpty(h) ==
    [history |-> SetState(h, [captions |-> Some(<<>>)], FALSE),
     error |-> Some(AnalysisFailed), isLoading |-> FALSE]

GenerateFailed(h) ==
    [history |-> h, error |-> Some(AnalysisFailed), isLoading |-> FALSE]

(* generateCaptions resolved: the try block's continuation and finally *)
generateResolved(generated) ==
    /\ pending # None
    /\ history' = SetState(history, [captions |-> Some(generated)], FALSE)
    /\ currentTime' = 0
    /\ \E played \in BOOLEAN :   \* audio.play() may be refused
          audio' = [currentTime |-> 0, paused |-> IF played THEN FALSE ELSE audio.paused]
    /\ isLoading' = FALSE
    /\ pending' = None
    /\ last' = Ran("generateResolved", "commit", [captions |-> Some(generated)], 0, TRUE)
    /\ gesture' = None
    /\ UNCHANGED <<file, duration, activeDrag, gestures, error>>
    /\ UNCHANGED <<isExporting, exportStatus, isModalOpen, exportPc, downloads,
                   frameLines, uiVars, memVars>>

(* generateCaptions threw: the catch block and finally *)
generateRejected ==
    /\ pending # None
    /\ LET after == GenerateFailed(history)
       IN /\ history' = after.history
          /\ error' = after.error
          /\ isLoading' = after.isLoading
    /\ pending' = None
    /\ last' = Ran("generateRejected", "none", NoPartial, 0, FALSE)
    /\ gesture' = None
    /\ UNCHANGED <<file, currentTime, duration, activeDrag, gestures>>
    /\ UNCHANGED <<exportVars, uiVars, memVars>>

NextGenerate ==
    \/ handleGenerateClick
    \/ \E generated \in GeneratedLists : generateResolved(generated)
    \/ generateRejected
    \/ \E x \in ClickXs : handleTimelineClick(x)
    \/ handleUndo
    \/ handleRedo

SpecGenerate == InitGenerate /\ [][NextGenerate]_vars

-----------------------------------------------------------------------------
(* The background image: an object URL kept in present.backgroundImage *)

MaxImages == 2

(* The n-th handle URL.createObjectURL hands out *)
ObjectUrl(n) == "blob:" \o ToString(n)

InitImage ==
    /\ \E list \in PlaybackCaptionLists : history = GeneratedHistory(list)
    /\ file \in Files
    /\ currentTime = 0
    /\ duration \in AudioDurations
    /\ activeDrag = None
    /\ gestures = 0
    /\ last = Ran("init", "none", NoPartial, 0, FALSE)
    /\ gesture = None
    /\ RestInit

(* if (backgroundImage) URL.revokeObjectURL(backgroundImage) *)
RevokePrior(b, backgroundImage) ==
    IF backgroundImage # "null"
    THEN [b EXCEPT !.revoked = @ \cup {backgroundImage}]
    ELSE b

handleBackgroundImageSelect ==
    /\ Editing
    /\ PointerFree
    /\ captions # None
    /\ blobs.created < MaxImages
    /\ LET url == ObjectUrl(blobs.created + 1)
       IN /\ blobs' = [RevokePrior(blobs, history.present.backgroundImage)
                          EXCEPT !.created = @ + 1]
          /\ history' = SetState(history, [backgroundImage |-> url], FALSE)
          /\ last' = Ran("handleBackgroundImageSelect", "commit",
                         [backgroundImage |-> url], 0, TRUE)
    /\ gesture' = None
    /\ UNCHANGED <<file, currentTime, duration, activeDrag, gestures>>
    /\ UNCHANGED <<loadVars, exportVars, uiVars, heap>>

(* The X button, shown while there is a background image *)
handleRemoveBackgroundImage ==
    /\ Editing
    /\ PointerFree
    /\ captions # None
    /\ history.present.backgroundImage # "null"
    /\ history' = SetState(history, [backgroundImage |-> "null"], FALSE)
    /\ last' = Ran("handleRemoveBackgroundImage", "commit",
                   [backgroundImage |-> "null"], 0, TRUE)
    /\ gesture' = None
    /\ UNCHANGED <<file, currentTime, duration, activeDrag, gestures>>
    /\ UNCHANGED <<loadVars, exportVars, uiVars, memVars>>

NextImage ==
    \/ handleBackgroundImageSelect
    \/ handleRemoveBackgroundImage
    \/ handleUndo
    \/ handleRedo

SpecImage == InitImage /\ [][NextImage]_vars

-----------------------------------------------------------------------------
(* Start Over while the captioning call is in flight *)

ResetFiles == {"song.mp3", "other.mp3"}

(* resetState.  Nothing tells the call in flight; isLoading is left alone. *)
(* With file null the editing layout, and with it the audio element, the   *)
(* timeline and the editor, is unmounted.                                  *)
resetState ==
    /\ Editing
    /\ PointerFree
    /\ file' = NoFile
    /\ currentTime' = 0
    /\ error' = None
    /\ duration' = 0
    /\ history' = [past |-> <<>>, present |-> initialEditorState, future |-> <<>>]
    /\ audio' = [currentTime |-> 0, paused |-> TRUE]
    /\ pending' = IF pending = None THEN None
                  ELSE Some([pending[1] EXCEPT !.stale = TRUE])
    /\ last' = Ran("resetState", "none", NoPartial, 0, history' # history)
    /\ gesture' = None
    /\ UNCHANGED <<activeDrag, gestures, isLoading>>
    /\ UNCHANGED <<isExporting, exportStatus, isModalOpen, exportPc, downloads, frameLines,
                   uiVars, memVars>>

NextReset ==
    \/ \E f \in ResetFiles : handleFileSelect(f)
    \/ \E d \in AudioDurations : onLoadedMetadata(d)
    \/ handleGenerateClick
    \/ \E generated \in GeneratedLists : generateResolved(generated)
    \/ generateRejected
    \/ resetState

SpecReset == Init /\ [][NextReset]_vars

-----------------------------------------------------------------------------
(* Properties *)

present == history.present
past == history.past
future == history.future

(* present overridden field by field by the partial state P *)
Overridden(old, P, new) ==
    /\ DOMAIN new = DOMAIN old
    /\ \A f \in DOMAIN old : new[f] = IF f \in DOMAIN P THEN P[f] ELSE old[f]

(* C1: a non-coalesced setState(P) appends the old present to past as its  *)
(* last element, overrides present field by field with P, and empties      *)
(* future.                                                                 *)
C1_Commit ==
    [][last'.set = "commit" =>
          /\ past' = Append(past, present)
          /\ Overridden(present, last'.partial, present')
          /\ future' = <<>>]_vars

(* a commit of another field than captions, made on top of two snapshots *)
C1_Witness ==
    /\ last.set = "commit"
    /\ "theme" \in DOMAIN last.partial
    /\ Len(past) >= 2
    /\ present.captions # None

(* C2: undo after a commit restores the present the commit started from and *)
(* redo after that undo restores what the commit produced; whenever past   *)
(* is non-empty, undo followed by redo gives back the same past, present   *)
(* and future.                                                             *)
C2_UndoRedoInverse ==
    [][/\ last'.set = "commit" =>
             /\ Undo(history').present = present
             /\ Redo(Undo(history')) = history'
       /\ (last'.op = "handleUndo" /\ Len(past) > 0) => Redo(history') = history]_vars

(* a redo that ran after two undos, between a non-empty past and future *)
C2_Witness ==
    /\ last.op = "handleRedo"
    /\ last.changed
    /\ past # <<>>
    /\ future # <<>>

(* C3: a coalesced setState (overwrite = true) leaves past and future as   *)
(* they are and only replaces present, so past never grows by it.          *)
C3_Coalesced ==
    [][last'.set = "overwrite" =>
          /\ past' = past
          /\ future' = future
          /\ Overridden(present, last'.partial, present')]_vars

(* a retime made between a non-empty past and a non-empty future *)
C3_Witness ==
    /\ last.set = "overwrite"
    /\ last.changed
    /\ past # <<>>
    /\ future # <<>>

(* C4 (as claimed): after a drag gesture (press, at least one move,        *)
(* release) a single undo restores the document as it was when the gesture *)
(* began: the captions get back the times they had, and nothing else is    *)
(* undone.                                                                 *)
C4_OneUndoableStep ==
    [][(/\ last.op = "handleMouseUp"
        /\ gesture # None
        /\ gesture[1].moved
        /\ last'.op = "handleUndo") => present' = gesture[1].pre]_vars

(* C5: undo leaves the history unchanged exactly when past is empty        *)
(* (canUndo false), redo exactly when future is empty (canRedo false).     *)
C5_NoOpExactlyWhenEmpty ==
    [][/\ last'.op = "handleUndo" =>
             /\ (history' = history) <=> (past = <<>>)
             /\ (history' = history) <=> ~canUndo
       /\ last'.op = "handleRedo" =>
             /\ (history' = history) <=> (future = <<>>)
             /\ (history' = history) <=> ~canRedo]_vars

(* an undo that ran on an empty past and changed nothing *)
C5_Witness ==
    /\ last.op = "handleUndo"
    /\ ~last.changed
    /\ past = <<>>

(* C6 (as claimed): every caption has endTime > startTime, and a resize    *)
(* passes an interval at least minDuration long.                           *)
C6_PositiveLength ==
    /\ \A i \in DOMAIN CaptionsOrEmpty(captions) :
          captions[1][i].endTime > captions[1][i].startTime
    /\ (/\ last.op = "handleMouseMove"
        /\ last.set = "overwrite"
        /\ activeDrag # None
        /\ activeDrag[1].type \in {"resize-start", "resize-end"}
        /\ activeDrag[1].index \in DOMAIN CaptionsOrEmpty(captions))
       => LET c == captions[1][activeDrag[1].index]
          IN c.endTime - c.startTime >= MinDuration

(* The retime the drag engine passed on its latest move *)
Retimed ==
    /\ last.op = "handleMouseMove"
    /\ last.set = "overwrite"
    /\ activeDrag # None
RetimedCaption == captions[1][activeDrag[1].index]
RetimedDelta ==
    DeltaTime(last.clientX, activeDrag[1].initialMouseX, TimelineRect, duration)

(* clamp(x, lo, hi) as resize-start applies it: the lower bound wins *)
clamp(x, lo, hi) == Max(lo, Min(x, hi))

(* C7 (as claimed): every move of a 'drag' session passes an interval with *)
(* newStart >= 0 and newEnd <= totalDuration.                              *)
C7_MoveWithinTrack ==
    (Retimed /\ activeDrag[1].type = "drag") =>
        /\ RetimedCaption.startTime >= 0
        /\ RetimedCaption.endTime <= duration

(* C8 (amended): every move of a 'resize-start' session passes             *)
(* newEnd = initialEnd and                                                 *)
(* newStart = clamp(initialStart + deltaTime, 0, initialEnd - minDuration), *)
(* which keeps newStart at least minDuration before newEnd provided        *)
(* initialEnd >= minDuration.                                              *)
C8_ResizeStart ==
    (Retimed /\ activeDrag[1].type = "resize-start") =>
        LET d == activeDrag[1]
        IN /\ RetimedCaption.endTime = d.initialEndTime
           /\ RetimedCaption.startTime =
                 clamp(d.initialStartTime + RetimedDelta, 0, d.initialEndTime - MinDuration)
           /\ d.initialEndTime >= MinDuration =>
                 RetimedCaption.endTime - RetimedCaption.startTime >= MinDuration

(* a resize-start pushed past the end handle and stopped by the cap *)
C8_Witness ==
    /\ Retimed
    /\ activeDrag[1].type = "resize-start"
    /\ activeDrag[1].initialEndTime >= MinDuration
    /\ activeDrag[1].initialStartTime + RetimedDelta
          > activeDrag[1].initialEndTime - MinDuration
    /\ RetimedCaption.startTime = activeDrag[1].initialEndTime - MinDuration

(* C8 (as claimed): the same, with newStart at least minDuration before    *)
(* newEnd for every session.                                               *)
C8_ResizeStart_AsClaimed ==
    (Retimed /\ activeDrag[1].type = "resize-start") =>
        LET d == activeDrag[1]
        IN /\ RetimedCaption.endTime = d.initialEndTime
           /\ RetimedCaption.startTime =
                 clamp(d.initialStartTime + RetimedDelta, 0, d.initialEndTime - MinDuration)
           /\ RetimedCaption.endTime - RetimedCaption.startTime >= MinDuration

(* C9 (as claimed): every move of a 'resize-end' session passes            *)
(* newStart = initialStart and                                             *)
(* newEnd = clamp(initialEnd + deltaTime, initialStart + minDuration,      *)
(* totalDuration), with the clamp of resize-start, also when the lower     *)
(* bound exceeds the upper bound.                                          *)
C9_ResizeEnd ==
    (Retimed /\ activeDrag[1].type = "resize-end") =>
        LET d == activeDrag[1]
        IN /\ RetimedCaption.startTime = d.initialStartTime
           /\ RetimedCaption.endTime =
                 clamp(d.initialEndTime + RetimedDelta, d.initialStartTime + MinDuration, duration)

Count(list, c) == Cardinality({i \in DOMAIN list : list[i] = c})

(* C10: handleAddCaption at playback time t commits a list sorted by       *)
(* startTime, one longer than before, made of the previous captions plus   *)
(* {startTime: t, endTime: t + 3, text: default}; from absent captions it  *)
(* is the one-element list.                                                *)
C10_AddLine ==
    [][last'.op = "handleAddCaption" =>
          LET old == CaptionsOrEmpty(captions)
              new == CaptionsOrEmpty(captions')
              added == Caption(currentTime, currentTime + DefaultCaptionLen, NewLineText, None)
          IN /\ captions' # None
             /\ Len(new) = Len(old) + 1
             /\ \A i \in 1..(Len(new) - 1) : new[i].startTime <= new[i + 1].startTime
             /\ \A i \in DOMAIN new :
                   Count(new, new[i]) = Count(old, new[i]) + (IF new[i] = added THEN 1 ELSE 0)
             /\ \A i \in DOMAIN old : Count(new, old[i]) >= Count(old, old[i])
             /\ captions = None => new = <<added>>]_vars

(* a line added in front of a caption that starts later *)
C10_Witness ==
    /\ last.op = "handleAddCaption"
    /\ captions # None
    /\ Len(captions[1]) >= 2
    /\ captions[1][1].startTime = currentTime
    /\ captions[1][1].text = NewLineText
    /\ captions[1][2].startTime > currentTime

(* C11: handleDeleteCaption with a valid index commits the list without    *)
(* the element at that position, the others unchanged and in the same      *)
(* order; with captions absent it changes neither present nor past nor     *)
(* future.                                                                 *)
C11_DeleteLine ==
    [][last'.op = "handleDeleteCaption" =>
          IF captions = None
          THEN /\ present' = present
               /\ past' = past
               /\ future' = future
          ELSE LET old == captions[1]
                   new == CaptionsOrEmpty(captions')
                   index == last'.index
               IN /\ captions' # None
                  /\ Len(new) = Len(old) - 1
                  /\ \A k \in DOMAIN new : new[k] = IF k < index THEN old[k] ELSE old[k + 1]
                  /\ Overridden(present, [captions |-> captions'], present')]_vars

(* the middle one of three captions deleted *)
C11_Witness ==
    /\ last.op = "handleDeleteCaption"
    /\ last.set = "commit"
    /\ last.index = 2
    /\ Len(captions[1]) = 2
    /\ Len(past[Len(past)].captions[1]) = 3

(* r is s without its leading and trailing whitespace *)
IsTrimOf(r, s) ==
    \E a \in 1..(Len(s) + 1), b \in 0..Len(s) :
        /\ r = SubSeq(s, a, b)
        /\ \A k \in 1..(a - 1) : s[k] \in Whitespace
        /\ \A k \in (b + 1)..Len(s) : s[k] \in Whitespace
        /\ r # <<>> => (r[1] \notin Whitespace /\ r[Len(r)] \notin Whitespace)

(* C12: on a caption with an emoji suggestion, handleAcceptEmoji sets text *)
(* to trim(emoji + ' ' + text) and handleRejectEmoji leaves text as it is; *)
(* both leave the emoji absent, keep startTime, endTime and every other    *)
(* caption, and push exactly one history entry.                            *)
C12_Emoji ==
    [][(/\ last'.op \in {"handleAcceptEmoji", "handleRejectEmoji"}
        /\ captions # None
        /\ last'.index \in DOMAIN captions[1]
        /\ HasEmoji(captions[1][last'.index])) =>
          LET old == captions[1]
              new == CaptionsOrEmpty(captions')
              index == last'.index
          IN /\ captions' # None
             /\ DOMAIN new = DOMAIN old
             /\ IF last'.op = "handleAcceptEmoji"
                THEN IsTrimOf(new[index].text, old[index].emoji[1] \o <<" ">> \o old[index].text)
                ELSE new[index].text = old[index].text
             /\ new[index].emoji = None
             /\ new[index].startTime = old[index].startTime
             /\ new[index].endTime = old[index].endTime
             /\ \A k \in DOMAIN old : k # index => new[k] = old[k]
             /\ past' = Append(past, present)]_vars

(* an emoji accepted on a text with surrounding blanks: "+" and " b " *)
C12_Witness ==
    /\ last.op = "handleAcceptEmoji"
    /\ last.set = "commit"
    /\ captions[1][last.index].text = <<"+", " ", " ", "b">>
    /\ captions[1][last.index].emoji = None

(* the first caption in list order with startTime <= t <= endTime *)
FirstMatch(list, t) ==
    LET matches == {i \in DOMAIN list : list[i].startTime <= t /\ t <= list[i].endTime}
    IN IF matches = {} THEN None
       ELSE Some(list[CHOOSE i \in matches : \A j \in matches : i <= j])

LatestEnd(list) ==
    IF list = <<>> THEN 0
    ELSE CHOOSE e \in {list[i].endTime : i \in DOMAIN list} :
             \A i \in DOMAIN list : list[i].endTime <= e

(* C13: at every time t the active caption is the first caption in list    *)
(* order with startTime <= t <= endTime, none if none matches, and the     *)
(* preview, the timeline and the export's frame loop select the same one.  *)
C13_ActiveCaption ==
    \A t \in 0..(LatestEnd(CaptionsOrEmpty(captions)) + 1) :
        /\ currentCaption(captions, t) = FirstMatch(CaptionsOrEmpty(captions), t)
        /\ activeCaption(captions, t) = currentCaption(captions, t)
        /\ captions # None => drawFrameCaption(captions[1], t) = currentCaption(captions, t)

(* the playhead on the end of one caption and the start of the next, and   *)
(* the earlier one selected                                                *)
C13_Witness ==
    /\ last.op = "handleSeek"
    /\ captions # None
    /\ Len(captions[1]) >= 2
    /\ captions[1][1].endTime = currentTime
    /\ captions[1][2].startTime = currentTime
    /\ captions[1][1] # captions[1][2]
    /\ currentCaption(captions, currentTime) = Some(captions[1][1])

(* idle -> initializing -> rendering -> encoding -> done *)
ExportStepOrder ==
    { <<"idle", "initializing">>, <<"initializing", "rendering">>,
      <<"rendering", "encoding">>, <<"encoding", "done">> }

(* C14 (as claimed): every change of exportStatus.step goes from a step to *)
(* the next one in idle -> initializing -> rendering -> encoding -> done,  *)
(* apart from a reset to idle.                                             *)
C14_ExportStepsInOrder ==
    [][exportStatus'.step # exportStatus.step =>
          \/ exportStatus'.step = "idle"
          \/ <<exportStatus.step, exportStatus'.step>> \in ExportStepOrder]_vars

(* C15 (as claimed): when a step of an export fails, the export is         *)
(* aborted, an error is surfaced, exportStatus.step is back at idle,       *)
(* isExporting is false and no file is handed over.                        *)
C15_ExportFailureResets ==
    [][("failed" \in DOMAIN last' /\ last'.failed \in ExportFailures) =>
          /\ exportPc' = "idle"
          /\ error' # None
          /\ exportStatus'.step = "idle"
          /\ ~isExporting'
          /\ downloads' = downloads]_vars

(* The space closest to floor(length / 2), the earlier one of two equally  *)
(* distant ones                                                            *)
Distance(a, b) == IF a >= b THEN a - b ELSE b - a

ClosestSpace(text) ==
    LET mid == Len(text) \div 2
        spaces == {i \in 0..(Len(text) - 1) : CharAt(text, i) = " "}
    IN CHOOSE i \in spaces :
           \A j \in spaces : \/ Distance(i, mid) < Distance(j, mid)
                             \/ Distance(i, mid) = Distance(j, mid) /\ i <= j

(* C20 (as claimed): with maxLines = 2, a text longer than 20 characters   *)
(* that contains a space is split at the space closest to                  *)
(* floor(length / 2), at the earlier one when two are equally distant.     *)
C20_SplitAtClosestSpace ==
    (/\ last.op = "drawFrame"
     /\ captions # None
     /\ FirstMatch(captions[1], audio.currentTime) # None) =>
        LET text == FrameText(FirstMatch(captions[1], audio.currentTime)[1])
        IN (/\ MaxLinesOf(activeThemeConfig(present)) = 2
            /\ Len(text) > 20
            /\ \E i \in DOMAIN text : text[i] = " ") =>
               frameLines = << Trim(Substring(text, 0, ClosestSpace(text))),
                               Trim(Substring(text, ClosestSpace(text), Len(text))) >>

(* C16: handleThemeConfigChange changes only the config stored under the   *)
(* active theme's name (the configs of the other themes, the theme name,   *)
(* captions, background, position and aspect ratio stay), and choosing a   *)
(* theme leaves every stored config alone, so that switching to another    *)
(* theme and back shows the edited config.                                 *)
C16_ThemeConfig ==
    [][/\ last'.op = "handleThemeConfigChange" =>
            /\ present'.theme = present.theme
            /\ \A t \in DOMAIN present.themeConfigs :
                  t # present.theme =>
                     /\ t \in DOMAIN present'.themeConfigs
                     /\ present'.themeConfigs[t] = present.themeConfigs[t]
            /\ DOMAIN present'.themeConfigs = (DOMAIN present.themeConfigs) \cup {present.theme}
            /\ activeThemeConfig(present') = last'.newConfig
            /\ \A f \in (DOMAIN present) \ {"themeConfigs"} : present'[f] = present[f]
            /\ \A other \in StyleThemes :
                  activeThemeConfig(Merge(Merge(present', [theme |-> other]),
                                          [theme |-> present.theme])) = last'.newConfig
       /\ last'.op = "handleThemeSelect" =>
            /\ present'.themeConfigs = present.themeConfigs
            /\ present'.theme = last'.partial.theme]_vars

(* a config edited under one theme, another theme chosen, the first chosen *)
(* again: the edited config is the active one                              *)
C16_Witness ==
    /\ last.op = "handleThemeSelect"
    /\ Len(past) >= 3
    /\ past[Len(past)].theme # present.theme
    /\ past[Len(past) - 1].theme = present.theme
    /\ present.theme \in DOMAIN past[Len(past) - 2].themeConfigs
    /\ past[Len(past) - 2].themeConfigs[present.theme] # activeThemeConfig(present)
    /\ past[Len(past) - 1].themeConfigs[present.theme] = activeThemeConfig(present)

(* C17: in every reachable state present.captionPosition has              *)
(* 0 <= x <= 100 and 0 <= y <= 100.                                        *)
C17_PositionInRange ==
    /\ present.captionPosition.x >= 0
    /\ present.captionPosition.x <= 100
    /\ present.captionPosition.y >= 0
    /\ present.captionPosition.y <= 100

(* the caption dragged beyond the right and the top edge of the preview,   *)
(* and that position brought back by undo and redo                         *)
C17_Witness ==
    /\ last.op = "handleRedo"
    /\ last.changed
    /\ present.captionPosition = [x |-> 100, y |-> 0]
    /\ past # <<>>
    /\ past[Len(past)].captionPosition # present.captionPosition

(* C18 (as claimed): while a timeline drag session is active, no discrete  *)
(* history commit of another operation is applied.                         *)
C18_NoCommitDuringDrag ==
    [][activeDrag # None => last'.set # "commit"]_vars

(* C19: when the captioning call fails, afterwards captions is absent,     *)
(* exactly one error message is set and isLoading is false; a caption      *)
(* list is committed only by the step in which the call returned its list, *)
(* and it is that whole list.                                              *)
C19_GenerateFailure ==
    [][/\ last'.op = "generateRejected" =>
            /\ captions' = None
            /\ error' = Some(AnalysisFailed)
            /\ ~isLoading'
            /\ history' = history
       /\ (last'.set = "commit" /\ "captions" \in DOMAIN last'.partial
                                /\ last'.partial.captions # None) =>
            /\ last'.op = "generateResolved"
            /\ pending # None
            /\ last'.partial.captions[1] \in GeneratedLists
            /\ captions' = last'.partial.captions
            /\ ~isLoading']_vars

(* a generation fails after an earlier attempt was already committed *)
C19_Witness ==
    /\ last.op = "generateRejected"
    /\ captions = None
    /\ error = Some(AnalysisFailed)
    /\ ~isLoading
    /\ Len(past) >= 3

(* The lines are the text itself, or its trimmed parts before and after    *)
(* one of its spaces, both non-empty                                       *)
SplitAtSpace(text, lines) ==
    \E p \in 1..Len(text) :
        /\ text[p] = " "
        /\ IsTrimOf(lines[1], SubSeq(text, 1, p - 1))
        /\ IsTrimOf(lines[2], SubSeq(text, p + 1, Len(text)))

(* C21: a frame's text is drawn in one or two lines; in one line, the text *)
(* itself, whenever maxLines = 1, the text has at most 20 characters or it *)
(* has no space; two lines are both non-empty and are the trimmed text     *)
(* before and after one space of the text.                                 *)
C21_SplitKeepsWords ==
    (/\ last.op = "drawFrame"
     /\ captions # None
     /\ FirstMatch(captions[1], audio.currentTime) # None) =>
        LET text == FrameText(FirstMatch(captions[1], audio.currentTime)[1])
            maxLines == MaxLinesOf(activeThemeConfig(present))
        IN /\ Len(frameLines) \in {1, 2}
           /\ (\/ maxLines = 1
               \/ Len(text) <= 20
               \/ \A i \in DOMAIN text : text[i] # " ") => frameLines = <<text>>
           /\ Len(frameLines) = 1 => frameLines = <<text>>
           /\ Len(frameLines) = 2 =>
                 /\ frameLines[1] # <<>>
                 /\ frameLines[2] # <<>>
                 /\ SplitAtSpace(text, frameLines)

(* a frame in two lines whose text has two adjacent spaces in the middle *)
C21_Witness ==
    /\ last.op = "drawFrame"
    /\ Len(frameLines) = 2
    /\ frameLines[1] = WordOf(10)
    /\ frameLines[2] = WordOf(10)

(* C22: every move of a 'drag' session passes an interval as long as the   *)
(* caption was at the press, also when the interval was clamped at 0 or at *)
(* the track's duration.                                                   *)
C22_MoveKeepsLength ==
    (Retimed /\ activeDrag[1].type = "drag") =>
        RetimedCaption.endTime - RetimedCaption.startTime
            = activeDrag[1].initialEndTime - activeDrag[1].initialStartTime

(* a move to the right stopped at the track's end *)
C22_Witness ==
    /\ Retimed
    /\ activeDrag[1].type = "drag"
    /\ RetimedDelta > 0
    /\ RetimedCaption.endTime = duration
    /\ RetimedCaption.startTime < activeDrag[1].initialStartTime + RetimedDelta
    /\ RetimedCaption.startTime > activeDrag[1].initialStartTime

(* The times of a caption as an interval *)
IntervalOf(c) == [newStartTime |-> c.startTime, newEndTime |-> c.endTime]

(* The interval the session's branch gives for the captured times *)
SessionInterval(drag, deltaTime, dur) ==
    CASE drag.type = "drag" ->
           MoveInterval(drag.initialStartTime, drag.initialEndTime, deltaTime, dur)
      [] drag.type = "resize-start" ->
           ResizeStartInterval(drag.initialStartTime, drag.initialEndTime, deltaTime, dur)
      [] drag.type = "resize-end" ->
           ResizeEndInterval(drag.initialStartTime, drag.initialEndTime, deltaTime, dur)

(* C23: within one drag session the interval of a move is a function of    *)
(* the times and pointer position captured at the press and of the move's  *)
(* pointer position alone: a move to the position of the move before it    *)
(* gives the same interval, and for a captured interval within the track   *)
(* and at least minDuration long a move back to the press position gives   *)
(* the captured interval.                                                  *)
C23_MoveOnlyFromPress ==
    [][(/\ activeDrag' # None
        /\ last'.op = "handleMouseMove"
        /\ last'.set = "overwrite") =>
          LET drag == activeDrag'[1]
              now == IntervalOf(captions'[1][drag.index])
          IN /\ now = SessionInterval(drag,
                        DeltaTime(last'.clientX, drag.initialMouseX, TimelineRect, duration'),
                        duration')
             /\ (Retimed /\ activeDrag = activeDrag' /\ last.clientX = last'.clientX) =>
                    now = IntervalOf(RetimedCaption)
             /\ (/\ last'.clientX = drag.initialMouseX
                 /\ 0 <= drag.initialStartTime
                 /\ drag.initialEndTime <= duration'
                 /\ drag.initialEndTime - drag.initialStartTime >= MinDuration) =>
                    now = [newStartTime |-> drag.initialStartTime,
                           newEndTime |-> drag.initialEndTime]]_vars

(* the pointer is back at the press position and the caption back at its   *)
(* captured times                                                          *)
C23_Witness ==
    /\ Retimed
    /\ last.clientX = activeDrag[1].initialMouseX
    /\ activeDrag[1].initialEndTime <= duration
    /\ activeDrag[1].initialEndTime - activeDrag[1].initialStartTime >= MinDuration
    /\ IntervalOf(RetimedCaption) = [newStartTime |-> activeDrag[1].initialStartTime,
                                     newEndTime |-> activeDrag[1].initialEndTime]

(* C24 (as claimed): an export that has entered the rendering step         *)
(* eventually reaches done, whatever the user does with the play button    *)
(* and the seek bar meanwhile, and leaves rendering only after a frame     *)
(* found the audio at its end.                                             *)
C24_ExportCompletes ==
    /\ (exportStatus.step = "rendering") ~> (exportStatus.step = "done")
    /\ [][(exportStatus.step = "rendering" /\ exportStatus'.step # "rendering") =>
             (exportPc = "stopping" /\ exportStatus'.step = "done")]_vars
    /\ [][(exportPc = "frames" /\ exportPc' = "stopping") =>
             audio.currentTime >= duration]_vars

(* C25 (as claimed): the pointer moves of a caption-position drag in the   *)
(* preview replace present without making past longer.                     *)
C25_PreviewDragCoalesced ==
    [][last'.op = "previewMouseMove" =>
          /\ Len(history'.past) <= Len(history.past)
          /\ history'.past = history.past]_vars

(* C26 (as claimed): a snapshot stored in past or future keeps the values  *)
(* it was pushed with, the times of its captions among them, whatever is   *)
(* done afterwards; past grows and shrinks at its end and future at its    *)
(* front, so snapshots are matched from the front and from the back.       *)
C26_SnapshotsImmutable ==
    [][/\ \A i \in 1..Min(Len(history.past), Len(history'.past)) :
             SnapshotValue(history'.past[i], heap') = SnapshotValue(history.past[i], heap)
       /\ \A k \in 0..(Min(Len(history.future), Len(history'.future)) - 1) :
             SnapshotValue(history'.future[Len(history'.future) - k], heap')
                 = SnapshotValue(history.future[Len(history.future) - k], heap)]_vars

(* C27 (as claimed): a captioning call started before resetState or for    *)
(* another file than the selected one never sets present.captions: a list  *)
(* is committed only by a call started, since the last resetState, for the *)
(* file now selected.                                                      *)
C27_NoStaleCaptions ==
    [][(last'.op = "generateResolved" /\ captions' # None) =>
          /\ ~pending[1].stale
          /\ pending[1].file = file'
          /\ file' # NoFile]_vars

(* C28 (as claimed): present.backgroundImage is absent or a handle that    *)
(* has not been released, after undo and redo too; and replacing the       *)
(* background image releases the handle it replaces.                       *)
C28_BackgroundHandleLive ==
    /\ present.backgroundImage \notin blobs.revoked
    /\ (last.op = "handleBackgroundImageSelect" /\ past[Len(past)].backgroundImage # "null")
          => past[Len(past)].backgroundImage \in blobs.revoked

(* C29 (as claimed): exportStatus.step is idle exactly when isExporting is *)
(* false; while isExporting is true the step is one of initializing,       *)
(* rendering, encoding and done.                                           *)
C29_IdleIffNotExporting ==
    /\ ~isExporting => exportStatus.step = "idle"
    /\ isExporting => exportStatus.step \in {"initializing", "rendering", "encoding", "done"}

(* C30: a retime changes the startTime and endTime of the caption at the   *)
(* session's index and nothing else: the list keeps its length and order,  *)
(* that caption its text and emoji, every other caption and every other    *)
(* field of present stay, and so do past and future.                       *)
C30_RetimeFrame ==
    [][(/\ activeDrag # None
        /\ last'.op = "handleMouseMove"
        /\ last'.set = "overwrite") =>
          LET index == activeDrag[1].index
              old == captions[1]
              new == captions'[1]
          IN /\ activeDrag' = activeDrag
             /\ captions' # None
             /\ Len(new) = Len(old)
             /\ \A i \in DOMAIN old : i # index => new[i] = old[i]
             /\ new[index].text = old[index].text
             /\ new[index].emoji = old[index].emoji
             /\ history'.present = [history.present EXCEPT !.captions = captions']
             /\ history'.past = history.past
             /\ history'.future = history.future]_vars

(* the second of two captions was moved; the first, with its emoji, stayed *)
C30_Witness ==
    /\ Retimed
    /\ activeDrag[1].index = 2
    /\ Len(captions[1]) = 2
    /\ RetimedCaption.startTime # activeDrag[1].initialStartTime
    /\ captions[1][1] = Caption(0, 10, <<"a">>, Some(<<"*">>))

====
